---------------------------- MODULE Spec2Model ----------------------------
(***************************************************************************)
(* A model of bfx-api: the Expectations registry (src/unnamed/part_000,    *)
(* i.e. Expectations.ts), the ActionsStack deferred queue                  *)
(* (src/dist/ActionsStack.js) and the BfxApi connection controller         *)
(* (src/src/BfxApi.ts).                                                    *)
(*                                                                         *)
(* JavaScript is single threaded: every public call and every transport    *)
(* callback runs to completion, so each of them is one action.  The calls  *)
(* a handler makes (handleMessage -> exec -> process -> whenever,          *)
(* processMsgInfo -> restart -> close, connect; resume -> fire -> send)    *)
(* are operators over a record S holding the mutable fields; an action     *)
(* commits the record its handler ends with.                               *)
(***************************************************************************)
EXTENDS Integers, Sequences, FiniteSets, TLC

VARIABLES
    paused,            \* BfxApi.paused
    resumeStack,       \* BfxApi.resumeStack.stack : sequence of deferred payloads
    pingCounter,       \* BfxApi.pingCounter
    expectationsOnce,      \* Expectations.expectationsOnce
    expectationsWhenever,  \* Expectations.expectationsWhenever
    ws,                \* BfxApi.ws : index into sockets, 0 = undefined
    sockets,           \* readyState of every transport created so far
    sent,              \* what the last step passed to ws.send, in order
    fired,             \* ids of the deferred actions the last step executed, in order
    handed,            \* history: ids of the payloads callers passed to send
    transmitted,       \* history: ids of the payloads passed to ws.send
    calls,             \* handlers invoked by the last step, in order
    ret,               \* return value of the last step's exec
    rejected,          \* the last step was a subscribe that rejected its promise
    nexp,              \* number of registrations made directly on the registry
    op,                \* the last operation made directly on the registry
    removed,           \* history: once-entries those operations removed
    bound,             \* history: per channel id, the subscription last acknowledged
    ended,             \* history: subscriptions whose unsubscribe was acknowledged
    server,            \* the server's side of the current session (SpecSub)
    ncall              \* number of caller operations issued (payload identity)

vars == <<paused, resumeStack, pingCounter, expectationsOnce, expectationsWhenever,
          ws, sockets, sent, fired, handed, transmitted, calls, ret, rejected,
          nexp, op, removed, bound, ended, server, ncall>>

---------------------------------------------------------------------------
(* Bounds of the model.                                                    *)

\* caller operations ping / subscribe / unsubscribe issued in one behaviour
MaxCalls == 2
\* transports created (connect() and restart()) in one behaviour
MaxSockets == 2
\* registrations made directly on a registry in SpecReg
MaxReg == 3
\* caller operations subscribe / unsubscribe issued in one behaviour of SpecSub
MaxSubCalls == 3
\* actions added directly to the deferred queue in SpecStack
MaxStack == 3

---------------------------------------------------------------------------
(* Messages.  A decoded inbound message is a record with every field the   *)
(* predicates read; 0, "" stand for a field that is absent (undefined).    *)
(* An array message [c, x] has a0 = c and a1 = x.                          *)

Pairs == {"BTCUSD", "ETHUSD"}
Channels == {"ticker", "trades"}
ChanIds == {5, 6}
Callbacks == {"f", "g"}
NotAFunction == "notfn"

NoMsg == [event |-> "", version |-> 0, code |-> 0, cid |-> 0, chanId |-> 0,
          pair |-> "", channel |-> "", a0 |-> 0, a1 |-> ""]

InfoVersion(v) == [NoMsg EXCEPT !.event = "info", !.version = v]
InfoCode(c) == [NoMsg EXCEPT !.event = "info", !.code = c]
Pong(cid) == [NoMsg EXCEPT !.event = "pong", !.cid = cid]
Subscribed(channel, pair, chanId) ==
    [NoMsg EXCEPT !.event = "subscribed", !.channel = channel, !.pair = pair,
                  !.chanId = chanId]
Unsubscribed(chanId) == [NoMsg EXCEPT !.event = "unsubscribed", !.chanId = chanId]
Arr(c, x) == [NoMsg EXCEPT !.a0 = c, !.a1 = x]

\* config.BitfinexAPIVersions; the configuration file is not part of the sources
allowedVersions == {2}

Msgs ==
    {InfoVersion(2), InfoVersion(9),
     [InfoVersion(2) EXCEPT !.code = 20060],
     InfoCode(20051), InfoCode(20060), InfoCode(20061), InfoCode(10000),
     [NoMsg EXCEPT !.event = "error"]}
    \cup {Pong(c) : c \in 1..MaxCalls}
    \cup {Subscribed(ch, p, c) : ch \in Channels, p \in Pairs, c \in ChanIds}
    \cup {Unsubscribed(c) : c \in ChanIds}
    \cup {Arr(c, x) : c \in ChanIds, x \in {"hb", "data"}}

---------------------------------------------------------------------------
(* Predicates (MatchFunc) are records naming the closure and what it       *)
(* captured; Apply evaluates the closure's body on a message.  The kind    *)
(* "oneOf" is a predicate given by the set of messages it accepts; only    *)
(* direct users of the registry register it.                               *)

\* JavaScript truthiness of a number field and of a string field
TruthyNum(v) == v # 0
TruthyStr(v) == v # ""

NoMatch == [k |-> "", n |-> 0, s |-> "", set |-> {}]

MatchHeartbeat(chanId) == [NoMatch EXCEPT !.k = "heartbeat", !.n = chanId]

MatchSnapshot(chanId) == [NoMatch EXCEPT !.k = "snapshot", !.n = chanId]

MatchVersion == [NoMatch EXCEPT !.k = "version"]

MatchPong(cid) == [NoMatch EXCEPT !.k = "pong", !.n = cid]

MatchUnsubscribed(chanId) == [NoMatch EXCEPT !.k = "unsubscribed", !.n = chanId]

MatchSubscribed(pair) == [NoMatch EXCEPT !.k = "subscribed", !.s = pair]

MatchOneOf(set) == [NoMatch EXCEPT !.k = "oneOf", !.set = set]

Apply(match, msg) ==
    CASE match.k = "heartbeat" -> msg.a0 = match.n /\ msg.a1 = "hb"
      [] match.k = "snapshot" -> msg.a0 = match.n /\ msg.a1 # "hb"
      [] match.k = "version" -> msg.event = "info" /\ TruthyNum(msg.version)
      [] match.k = "pong" -> msg.event = "pong" /\ msg.cid = match.n
      [] match.k = "unsubscribed" ->
            msg.event = "unsubscribed" /\ msg.chanId = match.n
      [] match.k = "subscribed" ->
            msg.event = "subscribed" /\ TruthyStr(msg.pair) /\ msg.pair = match.s
      [] match.k = "oneOf" -> msg \in match.set
      [] OTHER -> FALSE

(* Handlers (ProcessFunc) are records naming the closure and what it       *)
(* captured: cid, the callback, the channel and pair in the scope of       *)
(* subscribe, and req, the call that created the closure (the number of    *)
(* the caller operation; for the version check, the number of the          *)
(* transport its connect() creates).  Closures created by different *)
(* calls are different objects, so req gives an Expectation its identity.  *)
NoProc == [h |-> "", cid |-> 0, req |-> 0, cb |-> "", channel |-> "", pair |-> ""]
ProcVersion(req) == [NoProc EXCEPT !.h = "version", !.req = req]
ProcPong(req, cid) == [NoProc EXCEPT !.h = "pong", !.req = req, !.cid = cid]
ProcUnsubscribed(req) == [NoProc EXCEPT !.h = "unsubscribed", !.req = req]
ProcSubscribed(req, cb) == [NoProc EXCEPT !.h = "subscribed", !.req = req, !.cb = cb]
\* the acknowledgment handler as subscribe(channel, pair, ...) creates it
ProcSubscribedTo(req, cb, channel, pair) ==
    [ProcSubscribed(req, cb) EXCEPT !.channel = channel, !.pair = pair]
ProcSnapshot(req, cb) == [NoProc EXCEPT !.h = "snapshot", !.req = req, !.cb = cb]
ProcHeartbeating(req) == [NoProc EXCEPT !.h = "heartbeating", !.req = req]

\* new Expectation(match, process)
Expectation(match, process) == [match |-> match, process |-> process]

---------------------------------------------------------------------------
(* The mutable fields as one record.                                       *)

Cur == [paused |-> paused, resumeStack |-> resumeStack, pingCounter |-> pingCounter,
        expectationsOnce |-> expectationsOnce,
        expectationsWhenever |-> expectationsWhenever,
        ws |-> ws, sockets |-> sockets, sent |-> sent, fired |-> fired,
        handed |-> handed,
        transmitted |-> transmitted, calls |-> calls,
        ret |-> ret, rejected |-> rejected, nexp |-> nexp, op |-> op,
        removed |-> removed, bound |-> bound, ended |-> ended,
        server |-> server, ncall |-> ncall]

Commit(S) ==
    /\ sockets' = S.sockets
    /\ ws' = S.ws
    /\ paused' = S.paused
    /\ resumeStack' = S.resumeStack
    /\ pingCounter' = S.pingCounter
    /\ expectationsOnce' = S.expectationsOnce
    /\ expectationsWhenever' = S.expectationsWhenever
    /\ sent' = S.sent
    /\ fired' = S.fired
    /\ handed' = S.handed
    /\ transmitted' = S.transmitted
    /\ calls' = S.calls
    /\ ret' = S.ret
    /\ rejected' = S.rejected
    /\ nexp' = S.nexp
    /\ op' = S.op
    /\ removed' = S.removed
    /\ bound' = S.bound
    /\ ended' = S.ended
    /\ server' = S.server
    /\ ncall' = S.ncall

\* every step starts with nothing sent, no action fired, no handler invoked and
\* no result yet
Begin == [Cur EXCEPT !.sent = <<>>, !.fired = <<>>, !.calls = <<>>, !.ret = FALSE,
                     !.rejected = FALSE]

---------------------------------------------------------------------------
(* ActionsStack (src/dist/ActionsStack.js).  A deferred action is          *)
(* send.bind(this, data); the queue holds the bound payloads.              *)

add(S, action) == [S EXCEPT !.resumeStack = Append(@, action)]

reject(S) == [S EXCEPT !.resumeStack = <<>>]

---------------------------------------------------------------------------
(* The transport (the injected WebSocket class).  close() on an open       *)
(* socket starts the closing handshake; on a connecting socket it aborts   *)
(* the opening handshake, so that the socket never opens and never         *)
(* delivers ("ABORTED": readyState CLOSING or CLOSED, never opened); it    *)
(* does nothing on a socket that is already closing or closed.             *)

wsClose(S) ==
    CASE S.sockets[S.ws] = "OPEN" -> [S EXCEPT !.sockets[S.ws] = "CLOSING"]
      [] S.sockets[S.ws] = "CONNECTING" -> [S EXCEPT !.sockets[S.ws] = "ABORTED"]
      [] OTHER -> S

newWebSocket(S) ==
    [S EXCEPT !.sockets = Append(@, "CONNECTING"), !.ws = Len(S.sockets) + 1]

\* JSON.stringify(data): the JSON text of an object payload
JSONstringify(data) == [json |-> data]

wsSend(S, p) ==
    [S EXCEPT !.sent = Append(@, [ws |-> S.ws, id |-> p.id,
                                  data |-> JSONstringify(p.data)]),
              !.transmitted = @ \cup {p.id}]

---------------------------------------------------------------------------
(* BfxApi.send, and ActionsStack.fire over the actions it binds.           *)

NoData == [event |-> "", cid |-> 0, chanId |-> 0, channel |-> "", symbol |-> <<>>]

\* mutant: the gate forgets the paused flag
DeferSend_IgnoresPaused(S) == S.ws = 0 \/ S.sockets[S.ws] # "OPEN"

\* mutant: the gate forgets the transport's readyState
DeferSend_IgnoresReadyState(S) == S.paused \/ S.ws = 0

\* the condition of send's first branch
DeferSend(S) == S.paused \/ S.ws = 0 \/ S.sockets[S.ws] # "OPEN"

send(S, p) == IF DeferSend(S) THEN add(S, p) ELSE wsSend(S, p)

\* this.stack.forEach(action => action()): indices 1..n of the array as it is
\* read at each index; elements pushed during the loop lie beyond n
RECURSIVE forEach(_, _, _)
forEach(S, i, n) ==
    IF i > n THEN S
    ELSE LET action == S.resumeStack[i]
         IN  forEach(send([S EXCEPT !.fired = Append(@, action.id)], action),
                     i + 1, n)

\* mutant: the queue is not emptied after the loop
fire_KeepsQueue(S) == forEach(S, 1, Len(S.resumeStack))

fire(S) == reject(forEach(S, 1, Len(S.resumeStack)))

---------------------------------------------------------------------------
(* Expectations (src/unnamed/part_000).                                    *)

once(S, match, process) ==
    [S EXCEPT !.expectationsOnce = Append(@, Expectation(match, process))]

whenever(S, match, process) ==
    [S EXCEPT !.expectationsWhenever = Append(@, Expectation(match, process))]

\* mutant: the predicate is not consulted, the first entry is taken
findIndex_IgnoresPredicate(list, msg) == IF Len(list) > 0 THEN 1 ELSE 0

\* Array.prototype.findIndex with exp => exp.match(msg); 0 when there is none
findIndex(list, msg) ==
    IF \E i \in 1..Len(list) : Apply(list[i].match, msg)
    THEN CHOOSE i \in 1..Len(list) :
            /\ Apply(list[i].match, msg)
            /\ \A j \in 1..(i - 1) : ~Apply(list[j].match, msg)
    ELSE 0

\* the handlers the controller registers, by closure; resolve(msg) of a promise
\* is the invocation of its handler with msg, which calls records
process(S, exp, msg) ==
    LET S1 == [S EXCEPT !.calls = Append(@, [process |-> exp.process, msg |-> msg])]
        p == exp.process
    IN  CASE p.h = "version" ->
                IF msg.version \notin allowedVersions THEN wsClose(S1) ELSE S1
          [] p.h = "subscribed" ->
                LET S2 == whenever(S1, MatchSnapshot(msg.chanId),
                                   ProcSnapshot(p.req, p.cb))
                IN  whenever(S2, MatchHeartbeat(msg.chanId), ProcHeartbeating(p.req))
          [] OTHER -> S1

\* mutant: the filter drops every entry that accepts msg, not the one found
execOne_RemovesAllMatching(S, msg) ==
    LET i == findIndex(S.expectationsOnce, msg)
    IN  IF i = 0
        THEN [S EXCEPT !.ret = FALSE]
        ELSE LET expectation == S.expectationsOnce[i]
                 S1 == [S EXCEPT !.expectationsOnce =
                            SelectSeq(@, LAMBDA exp : ~Apply(exp.match, msg))]
             IN  [process(S1, expectation, msg) EXCEPT !.ret = TRUE]

execOne(S, msg) ==
    LET i == findIndex(S.expectationsOnce, msg)
    IN  IF i = 0
        THEN [S EXCEPT !.ret = FALSE]
        ELSE LET expectation == S.expectationsOnce[i]
                 S1 == [S EXCEPT !.expectationsOnce =
                            SelectSeq(@, LAMBDA exp : exp # expectation)]
             IN  [process(S1, expectation, msg) EXCEPT !.ret = TRUE]

execWhenever(S, msg) ==
    LET expIdx == findIndex(S.expectationsWhenever, msg)
    IN  IF expIdx = 0
        THEN [S EXCEPT !.ret = FALSE]
        ELSE [process(S, S.expectationsWhenever[expIdx], msg) EXCEPT !.ret = TRUE]

\* mutant: the whenever-list is consulted first
exec_WheneverFirst(S, msg) ==
    LET r == execWhenever(S, msg)
    IN  IF r.ret THEN r ELSE execOne(r, msg)

\* mutant: the whenever-list is consulted after a once-entry has consumed msg
exec_NoShortCircuit(S, msg) ==
    LET r == execOne(S, msg)
        w == execWhenever(r, msg)
    IN  [w EXCEPT !.ret = r.ret \/ w.ret]

exec(S, msg) ==
    LET r == execOne(S, msg)
    IN  IF r.ret THEN r ELSE execWhenever(r, msg)

---------------------------------------------------------------------------
(* BfxApi (src/src/BfxApi.ts).                                             *)

connect(S) == newWebSocket(once(S, MatchVersion, ProcVersion(Len(S.sockets) + 1)))

close(S) == wsClose(S)

pause(S) == [S EXCEPT !.paused = TRUE]

\* mutant: the flag is not cleared
resume_KeepsPaused(S) == fire(S)

resume(S) == fire([S EXCEPT !.paused = FALSE])

\* mutant: the old transport is left as it is
restart_NoClose(S) == connect(S)

restart(S) == connect(close(S))

processMsgInfo(S, msg) ==
    CASE msg.code = 20051 -> restart(S)
      [] msg.code = 20060 -> pause(S)
      [] msg.code = 20061 -> resume(S)
      [] OTHER -> S

\* mutant: the early return after a consumed message is missing
handleMessage_NoEarlyReturn(S, msg) ==
    LET r == exec(S, msg)
    IN  IF msg.event = "info" THEN processMsgInfo(r, msg) ELSE r

handleMessage(S, msg) ==
    LET r == exec(S, msg)
    IN  IF r.ret THEN r
        ELSE IF msg.event = "info" THEN processMsgInfo(r, msg)
        ELSE r

\* the payload of one caller operation, tagged with the call that made it
Payload(id, data) == [id |-> id, data |-> data]

\* send(data) as ping, subscribe and unsubscribe call it: a new payload enters
callerSend(S, p) == send([S EXCEPT !.handed = @ \cup {p.id}], p)

\* mutant: the counter is read but not advanced
ping_StaleCounter(S) ==
    LET cid == S.pingCounter + 1
        S2 == once(S, MatchPong(cid), ProcPong(S.ncall, cid))
    IN  callerSend(S2, Payload(S.ncall, [NoData EXCEPT !.cid = cid,
                                                       !.event = "ping"]))

ping(S) ==
    LET cid == S.pingCounter + 1
        S1 == [S EXCEPT !.pingCounter = cid]
        S2 == once(S1, MatchPong(cid), ProcPong(S.ncall, cid))
    IN  callerSend(S2, Payload(S.ncall, [NoData EXCEPT !.cid = cid,
                                                       !.event = "ping"]))

unsubscribe(S, chanId) ==
    LET S1 == callerSend(S, Payload(S.ncall, [NoData EXCEPT !.event = "unsubscribe",
                                                            !.chanId = chanId]))
    IN  once(S1, MatchUnsubscribed(chanId), ProcUnsubscribed(S.ncall))

\* mutant: the callback is not validated
subscribe_NoValidation(S, channel, pair, params, callback) ==
    LET S1 == once(S, MatchSubscribed(pair),
                   ProcSubscribedTo(S.ncall, callback, channel, pair))
    IN  callerSend(S1, Payload(S.ncall, [NoData EXCEPT !.event = "subscribe",
                                                        !.channel = channel,
                                                        !.symbol = params]))

subscribe(S, channel, pair, params, callback) ==
    IF callback = NotAFunction
    THEN [S EXCEPT !.rejected = TRUE]
    ELSE LET S1 == once(S, MatchSubscribed(pair),
                        ProcSubscribedTo(S.ncall, callback, channel, pair))
         IN  callerSend(S1, Payload(S.ncall, [NoData EXCEPT !.event = "subscribe",
                                                             !.channel = channel,
                                                             !.symbol = params]))

subscribeTicker(S, pair, callback) ==
    subscribe(S, "ticker", pair, <<"t", pair>>, callback)

subscribeTrades(S, pair, callback) ==
    subscribe(S, "trades", pair, <<"t", pair>>, callback)

---------------------------------------------------------------------------
(* The state after new BfxApi(): paused, empty queue, empty registry, no   *)
(* transport.                                                              *)

\* no subscription
NoSub == [req |-> 0, cb |-> ""]

\* a session in which the server has received and allocated nothing
NoSession == [reqs |-> {}, unsubs |-> {}, live |-> {}]

Init ==
    /\ paused = TRUE
    /\ resumeStack = <<>>
    /\ pingCounter = 0
    /\ expectationsOnce = <<>>
    /\ expectationsWhenever = <<>>
    /\ ws = 0
    /\ sockets = <<>>
    /\ sent = <<>>
    /\ fired = <<>>
    /\ handed = {}
    /\ transmitted = {}
    /\ calls = <<>>
    /\ ret = FALSE
    /\ rejected = FALSE
    /\ nexp = 0
    /\ op = [name |-> "", msg |-> NoMsg]
    /\ removed = {}
    /\ bound = [c \in ChanIds |-> NoSub]
    /\ ended = {}
    /\ server = NoSession
    /\ ncall = 0

\* a caller operation takes the next call number
NewCall == [Begin EXCEPT !.ncall = @ + 1]

Connect ==
    /\ Len(sockets) < MaxSockets
    /\ Commit(connect(Begin))

\* close() before any connect() throws on the undefined this.ws and changes nothing
Close ==
    /\ ws # 0
    /\ Commit(close(Begin))

Ping ==
    /\ ncall < MaxCalls
    /\ Commit(ping(NewCall))

Unsubscribe(chanId) ==
    /\ ncall < MaxCalls
    /\ Commit(unsubscribe(NewCall, chanId))

\* ws.onopen = this.resume.bind(this), for the transport numbered i
OnOpen(i) ==
    /\ sockets[i] = "CONNECTING"
    /\ UNCHANGED <<ncall, handed, nexp, op, removed, bound, ended, server>>
    /\ Commit(resume([Begin EXCEPT !.sockets[i] = "OPEN"]))

\* ws.onmessage = this.handleMessage.bind(this): every transport created so far
\* calls the same bound handler, which does not look at the transport the event
\* comes from; a socket delivers what it receives until its closing handshake
\* completes
Delivering == {i \in 1..Len(sockets) : sockets[i] \in {"OPEN", "CLOSING"}}

\* the histories of acknowledgments, from the handlers a step invoked: the
\* acknowledgment handler of subscribe request req ran on a message with channel
\* id c; the acknowledgment handler of an unsubscribe ran on channel id c
RECURSIVE Track(_, _)
Track(S, k) ==
    IF k > Len(S.calls) THEN S
    ELSE LET call == S.calls[k]
             c == call.msg.chanId
         IN  CASE call.process.h = "subscribed" /\ c \in ChanIds ->
                    Track([S EXCEPT !.bound[c] = [req |-> call.process.req,
                                                  cb |-> call.process.cb]], k + 1)
               [] call.process.h = "unsubscribed" /\ c \in ChanIds
                    /\ S.bound[c] # NoSub ->
                    Track([S EXCEPT !.ended = @ \cup {S.bound[c].req}], k + 1)
               [] OTHER -> Track(S, k + 1)

OnMessage(msg) ==
    /\ Delivering # {}
    /\ UNCHANGED <<ncall, handed, nexp, op, removed, server>>
    /\ LET S == Track(handleMessage(Begin, msg), 1)
       IN  /\ Len(S.sockets) <= MaxSockets
           /\ Commit(S)

\* the transport numbered i goes away without the controller's doing (closing
\* handshake done, failure, peer close); the controller wires no handler to it
OnClosed(i) ==
    /\ sockets[i] \in {"CONNECTING", "OPEN", "CLOSING"}
    /\ Commit([Begin EXCEPT !.sockets[i] =
                    IF sockets[i] = "CONNECTING" THEN "ABORTED" ELSE "CLOSED"])

\* what the server sends on the control plane: version and info codes, pongs,
\* unsubscribe acknowledgments, errors
ControlMsgs == {msg \in Msgs : msg.event \in {"info", "pong", "unsubscribed", "error"}}

\* the connection life cycle and the outbound path: pings and unsubscribes
Next ==
    \/ Connect
    \/ Close
    \/ Ping
    \/ \E chanId \in ChanIds : Unsubscribe(chanId)
    \/ \E i \in 1..Len(sockets) : OnOpen(i)
    \/ \E msg \in ControlMsgs : OnMessage(msg)
    \/ \E i \in 1..Len(sockets) : OnClosed(i)

Spec == Init /\ [][Next]_vars

---------------------------------------------------------------------------
(* The caller's side of the controller: connect, close, restart and        *)
(* subscribe with any callback argument, while transports open and go away *)
(* and the server pauses, resumes and asks for a reconnect.                *)

Restart ==
    /\ ws # 0
    /\ Len(sockets) < MaxSockets
    /\ Commit(restart(Begin))

SubscribeTicker(pair, callback) ==
    /\ ncall < MaxCalls
    /\ Commit(subscribeTicker(NewCall, pair, callback))

SubscribeTrades(pair, callback) ==
    /\ ncall < MaxCalls
    /\ Commit(subscribeTrades(NewCall, pair, callback))

\* the values a caller may pass as callback
CallbackArgs == Callbacks \cup {NotAFunction}

\* the server's directives
Directives == {InfoCode(20051), InfoCode(20060), InfoCode(20061)}

NextCtl ==
    \/ Connect
    \/ Close
    \/ Restart
    \/ \E pair \in Pairs, cb \in CallbackArgs : SubscribeTicker(pair, cb)
    \/ \E pair \in Pairs, cb \in CallbackArgs : SubscribeTrades(pair, cb)
    \/ \E i \in 1..Len(sockets) : OnOpen(i)
    \/ \E msg \in Directives : OnMessage(msg)
    \/ \E i \in 1..Len(sockets) : OnClosed(i)

SpecCtl == Init /\ [][NextCtl]_vars

---------------------------------------------------------------------------
(* Subscriptions against a server that follows the protocol.  The server   *)
(* acknowledges a subscribe request it has received on the current         *)
(* transport with a channel id that is free in the session, acknowledges   *)
(* an unsubscribe it has received for an allocated channel and frees the   *)
(* id (it drops an unsubscribe for a channel that is not allocated), sends *)
(* heartbeats and data on allocated channels only, and may ask for a       *)
(* reconnect (20051); a new transport is a new session.  Only the current  *)
(* transport delivers.                                                     *)

\* JSON.parse of a transmitted text
JSONparse(text) == text.json

\* the server reads what the step transmitted on the current transport
RECURSIVE Receive(_, _, _)
Receive(srv, out, k) ==
    IF k > Len(out) THEN srv
    ELSE LET data == JSONparse(out[k].data)
         IN  CASE data.event = "subscribe" ->
                    Receive([srv EXCEPT !.reqs = @ \cup
                                {[channel |-> data.channel, pair |-> data.symbol[2]]}],
                            out, k + 1)
               [] data.event = "unsubscribe" /\ data.chanId \in srv.live ->
                    Receive([srv EXCEPT !.unsubs = @ \cup {data.chanId}], out, k + 1)
               [] OTHER -> Receive(srv, out, k + 1)

\* the session after a step of the controller that ends in S
Session(S) ==
    Receive(IF S.ws # ws THEN NoSession ELSE S.server, S.sent, 1)

Serve(S) == [S EXCEPT !.server = Session(S)]

\* the session after the server has sent msg
Reply(srv, msg) ==
    CASE msg.event = "subscribed" ->
            [srv EXCEPT !.live = @ \cup {msg.chanId},
                        !.reqs = @ \ {[channel |-> msg.channel, pair |-> msg.pair]}]
      [] msg.event = "unsubscribed" ->
            [srv EXCEPT !.live = @ \ {msg.chanId}, !.unsubs = @ \ {msg.chanId}]
      [] OTHER -> srv

\* what the server may send in the current session
ServerMsgs ==
    {Subscribed(r.channel, r.pair, c) : r \in server.reqs, c \in ChanIds \ server.live}
    \cup {Unsubscribed(c) : c \in server.unsubs \cap server.live}
    \cup {Arr(c, x) : c \in server.live, x \in {"hb", "data"}}
    \cup {InfoCode(20051)}

SubConnect ==
    /\ Len(sockets) < MaxSockets
    /\ Commit(Serve(connect(Begin)))

SubOpen ==
    /\ ws # 0
    /\ sockets[ws] = "CONNECTING"
    /\ Commit(Serve(resume([Begin EXCEPT !.sockets[ws] = "OPEN"])))

SubTicker(pair, callback) ==
    /\ ncall < MaxSubCalls
    /\ Commit(Serve(subscribeTicker(NewCall, pair, callback)))

SubTrades(pair, callback) ==
    /\ ncall < MaxSubCalls
    /\ Commit(Serve(subscribeTrades(NewCall, pair, callback)))

SubUnsubscribe(chanId) ==
    /\ ncall < MaxSubCalls
    /\ Commit(Serve(unsubscribe(NewCall, chanId)))

ServerSends(msg) ==
    /\ ws # 0
    /\ sockets[ws] = "OPEN"
    /\ LET S == Track(handleMessage([Begin EXCEPT !.server = Reply(@, msg)], msg), 1)
       IN  /\ Len(S.sockets) <= MaxSockets
           /\ Commit(Serve(S))

NextSub ==
    \/ SubConnect
    \/ SubOpen
    \/ \E pair \in Pairs, cb \in Callbacks : SubTicker(pair, cb)
    \/ \E pair \in Pairs, cb \in Callbacks : SubTrades(pair, cb)
    \/ \E chanId \in ChanIds : SubUnsubscribe(chanId)
    \/ \E msg \in ServerMsgs : ServerSends(msg)

SpecSub == Init /\ [][NextSub]_vars

---------------------------------------------------------------------------
(* The registry used directly (once, whenever and exec are public methods  *)
(* of Expectations): any predicates over a small set of messages, with the *)
(* handlers of the repository.  A once-entry runs a handler that only logs *)
(* (ping's) or the acknowledgment handler of subscribe, which registers    *)
(* two whenever-entries; a whenever-entry runs a snapshot callback.        *)

RegMsgs == {Pong(1), Arr(5, "data")}

ExecMsgs == RegMsgs \cup {Arr(5, "hb")}

RegMatches == {MatchOneOf(set) : set \in (SUBSET RegMsgs) \ {{}}}

RegOnceProcs(req) == {ProcPong(req, 0), ProcSubscribed(req, "f")}

RegWheneverProcs(req) == {ProcSnapshot(req, "g")}

Range(seq) == {seq[k] : k \in 1..Len(seq)}

RegOnce(mf, pf) ==
    /\ nexp < MaxReg
    /\ Commit(once([Begin EXCEPT !.nexp = @ + 1,
                                 !.op = [name |-> "once", msg |-> NoMsg]],
                   mf, pf))

RegWhenever(mf, pf) ==
    /\ nexp < MaxReg
    /\ Commit(whenever([Begin EXCEPT !.nexp = @ + 1,
                                     !.op = [name |-> "whenever", msg |-> NoMsg]],
                       mf, pf))

RegExec(msg) ==
    LET S == exec([Begin EXCEPT !.op = [name |-> "exec", msg |-> msg]], msg)
    IN  Commit([S EXCEPT !.removed =
                    @ \cup (Range(expectationsOnce) \ Range(S.expectationsOnce))])

NextReg ==
    \/ \E mf \in RegMatches, pf \in RegOnceProcs(nexp + 1) :
            RegOnce(mf, pf)
    \/ \E mf \in RegMatches, pf \in RegWheneverProcs(nexp + 1) :
            RegWhenever(mf, pf)
    \/ \E msg \in ExecMsgs : RegExec(msg)

SpecReg == Init /\ [][NextReg]_vars

---------------------------------------------------------------------------
(* The deferred queue used directly (add, fire and reject are public       *)
(* methods of ActionsStack) with the actions the controller defers,        *)
(* send.bind(this, data): a fired action transmits when the gate of send   *)
(* is open and pushes itself on the queue again when it is not.  The gate  *)
(* moves with connect, close, the open event and the pause directive.      *)

StackAdd ==
    /\ ncall < MaxStack
    /\ Commit(add(NewCall, Payload(ncall + 1, [NoData EXCEPT !.event = "ping"])))

StackFire == Commit(fire(Begin))

StackReject == Commit(reject(Begin))

NextStack ==
    \/ StackAdd
    \/ StackFire
    \/ StackReject
    \/ Connect
    \/ Close
    \/ \E i \in 1..Len(sockets) : OnOpen(i)
    \/ OnMessage(InfoCode(20060))

SpecStack == Init /\ [][NextStack]_vars

---------------------------------------------------------------------------
(* Vocabulary of the properties.                                           *)

\* the ids of the payloads a sequence of payloads (or of transmissions) holds
Ids(seq) == [k \in 1..Len(seq) |-> seq[k].id]

IdSet(seq) == {seq[k].id : k \in 1..Len(seq)}

\* some expectation of either list accepts msg
Matched(msg) ==
    \/ \E k \in 1..Len(expectationsOnce) : Apply(expectationsOnce[k].match, msg)
    \/ \E k \in 1..Len(expectationsWhenever) :
            Apply(expectationsWhenever[k].match, msg)

\* the step runs resume(): a transport's open event, or an unconsumed 20061
ResumeRuns ==
    \/ \E i \in 1..Len(sockets) : OnOpen(i)
    \/ \E msg \in Msgs :
            /\ msg.event = "info" /\ msg.code = 20061 /\ ~Matched(msg)
            /\ OnMessage(msg)

\* the step is a caller operation that calls send
CallerSends == ncall' = ncall + 1 /\ ~rejected'

---------------------------------------------------------------------------
(* C1: no payload handed to send is ever lost: in every reachable state    *)
(* each payload a caller passed to send has been passed to a transport's   *)
(* send or is still held in the deferred queue.                            *)
C1_NoPayloadLost ==
    \A id \in handed : id \in transmitted \/ id \in IdSet(resumeStack)

(* C2: whenever resume() runs, the payloads held in the deferred queue are *)
(* transmitted in that step, in the order of their send calls, each once,  *)
(* and the queue is empty afterwards.                                      *)
C2_ResumeTransmitsQueue ==
    [][ResumeRuns => /\ Ids(sent') = Ids(resumeStack)
                     /\ resumeStack' = <<>>]_vars

(* C3: a payload reaches the transport only when paused is false and the   *)
(* current transport exists and is open; a step that starts paused and     *)
(* does not run resume() transmits nothing, and a send call made in it     *)
(* appends exactly one deferred action, its payload, to the queue's tail.  *)
C3_SendGate ==
    [][/\ sent' # <<>> =>
            /\ ~paused'
            /\ ~paused \/ ResumeRuns
            /\ ws' # 0
            /\ sockets'[ws'] = "OPEN"
            /\ \A k \in 1..Len(sent') : sent'[k].ws = ws'
       /\ paused =>
            \/ /\ sent' = <<>>
               /\ transmitted' = transmitted
               /\ CallerSends =>
                       /\ Len(resumeStack') = Len(resumeStack) + 1
                       /\ SubSeq(resumeStack', 1, Len(resumeStack)) = resumeStack
                       /\ resumeStack'[Len(resumeStack')].id = ncall'
            \/ ResumeRuns
      ]_vars

\* paused by a 20060 directive (the current transport is open) with two sends
\* deferred in call order and nothing transmitted
C3_Witness ==
    /\ paused
    /\ ws # 0
    /\ sockets[ws] = "OPEN"
    /\ Ids(resumeStack) = <<1, 2>>
    /\ transmitted = {}

---------------------------------------------------------------------------
(* Properties of the registry, over SpecReg.                               *)

\* seq without its k-th element; seq itself for k = 0
RemoveAt(seq, k) ==
    IF k = 0 THEN seq
    ELSE [i \in 1..(Len(seq) - 1) |-> IF i < k THEN seq[i] ELSE seq[i + 1]]

\* list[k] accepts msg and no entry registered before it in list does
Earliest(list, k, msg) ==
    /\ Apply(list[k].match, msg)
    /\ \A j \in 1..(k - 1) : ~Apply(list[j].match, msg)

Accepts(list, msg) == \E k \in 1..Len(list) : Apply(list[k].match, msg)

Invocation(exp, msg) == [process |-> exp.process, msg |-> msg]

(* C4: one dispatch invokes at most one handler; if a once-entry accepts   *)
(* the message, the earliest registered such once-entry is the one invoked *)
(* and no whenever-handler runs; otherwise the earliest registered         *)
(* whenever-entry that accepts it is the one invoked.                      *)
C4_FirstMatchOnceBeforeWhenever ==
    [][op'.name = "exec" =>
        LET msg == op'.msg IN
        /\ Len(calls') <= 1
        /\ Accepts(expectationsOnce, msg) =>
                \E k \in 1..Len(expectationsOnce) :
                    /\ Earliest(expectationsOnce, k, msg)
                    /\ calls' = <<Invocation(expectationsOnce[k], msg)>>
        /\ (~Accepts(expectationsOnce, msg) /\ Accepts(expectationsWhenever, msg)) =>
                \E k \in 1..Len(expectationsWhenever) :
                    /\ Earliest(expectationsWhenever, k, msg)
                    /\ calls' = <<Invocation(expectationsWhenever[k], msg)>>
        /\ (~Accepts(expectationsOnce, msg) /\ ~Accepts(expectationsWhenever, msg)) =>
                calls' = <<>>
      ]_vars

\* a dispatch invoked a once-entry although a whenever-entry registered before it
\* accepts the message too, and so does a once-entry registered after it
C4_Witness ==
    /\ op.name = "exec"
    /\ Len(calls) = 1
    /\ calls[1].process.h = "pong"
    /\ \E w \in Range(expectationsWhenever) :
            /\ Apply(w.match, op.msg)
            /\ w.process.req < calls[1].process.req
    /\ \E e \in Range(expectationsOnce) :
            /\ Apply(e.match, op.msg)
            /\ e.process.req > calls[1].process.req

(* C5: each dispatch removes at most one entry from the once-list and the  *)
(* remaining entries keep their order; the handler of an entry removed by  *)
(* an earlier dispatch is not invoked again; dispatch removes no           *)
(* whenever-entry.                                                         *)
C5_OnceConsumedOnce ==
    [][op'.name = "exec" =>
        /\ \E k \in 0..Len(expectationsOnce) :
                expectationsOnce' = RemoveAt(expectationsOnce, k)
        /\ Len(expectationsWhenever') >= Len(expectationsWhenever)
        /\ SubSeq(expectationsWhenever', 1, Len(expectationsWhenever))
                = expectationsWhenever
        /\ \A k \in 1..Len(calls') : \A e \in removed :
                calls'[k].process # e.process
      ]_vars

\* a message that an already removed once-entry accepts was dispatched again and
\* went unconsumed, with other once-entries still registered
C5_Witness ==
    /\ op.name = "exec"
    /\ ~ret
    /\ calls = <<>>
    /\ \E e \in removed : Apply(e.match, op.msg)
    /\ Len(expectationsOnce) >= 1

(* C6: dispatching a message that no predicate of either list accepts      *)
(* returns false, invokes no handler and leaves both lists as they were.   *)
C6_UnmatchedChangesNothing ==
    [][(op'.name = "exec" /\ ~Matched(op'.msg)) =>
        /\ ret' = FALSE
        /\ calls' = <<>>
        /\ expectationsOnce' = expectationsOnce
        /\ expectationsWhenever' = expectationsWhenever
      ]_vars

\* a message no entry accepts was dispatched against two non-empty lists
C6_Witness ==
    /\ op.name = "exec"
    /\ ~Matched(op.msg)
    /\ ~ret
    /\ calls = <<>>
    /\ expectationsOnce # <<>>
    /\ expectationsWhenever # <<>>

---------------------------------------------------------------------------
(* Properties of subscriptions and of restart, over SpecSub.               *)

\* the step runs restart(): the server's 20051, which no expectation consumes
RestartRuns ==
    /\ ~Matched(InfoCode(20051))
    /\ ServerSends(InfoCode(20051))

(* C7: once a subscription created with callback f is acknowledged with    *)
(* channel id c, a later [c, 'hb'] invokes that subscription's heartbeat   *)
(* handler and nothing else, and a later [c, x] with x other than 'hb'     *)
(* invokes f once with that message and no other subscription's callback.  *)
C7_SubscriptionRouting ==
    [][\A c \in ChanIds : bound[c] # NoSub =>
          /\ ServerSends(Arr(c, "hb")) =>
                calls' = <<[process |-> ProcHeartbeating(bound[c].req),
                            msg |-> Arr(c, "hb")]>>
          /\ ServerSends(Arr(c, "data")) =>
                calls' = <<[process |-> ProcSnapshot(bound[c].req, bound[c].cb),
                            msg |-> Arr(c, "data")]>>
      ]_vars

(* C8: after restart() the registry holds only the version-check           *)
(* expectation that the new connection registered; nothing registered      *)
(* before the restart is left to fire.                                     *)
C8_FreshRegistryAfterRestart ==
    [][RestartRuns =>
          /\ expectationsOnce' = <<Expectation(MatchVersion, ProcVersion(ws'))>>
          /\ expectationsWhenever' = <<>>
      ]_vars

(* C9: once the unsubscribe of channel id c is acknowledged, the snapshot  *)
(* callback and the heartbeat handler of the subscription that held c are  *)
(* not invoked for any later message.                                      *)
C9_SilentAfterUnsubscribed ==
    \A k \in 1..Len(calls) :
        calls[k].process.h \in {"snapshot", "heartbeating"}
            => calls[k].process.req \notin ended

---------------------------------------------------------------------------
(* C10: an inbound message that no expectation consumes is handled by its  *)
(* info code only: 20051 restarts, 20060 pauses, 20061 resumes, and any    *)
(* other unconsumed message changes nothing and transmits nothing; a       *)
(* message an expectation consumes triggers none of the three.             *)
\* what C10 says of a step that handles msg
C10_Handled(msg) ==
    IF Matched(msg)
    THEN /\ paused' = paused
         /\ resumeStack' = resumeStack
         /\ pingCounter' = pingCounter
         /\ ws' = ws
         /\ Len(sockets') = Len(sockets)
         /\ sent' = <<>>
    ELSE /\ expectationsWhenever' = expectationsWhenever
         /\ pingCounter' = pingCounter
         /\ calls' = <<>>
         /\ CASE msg.event = "info" /\ msg.code = 20051 ->
                    /\ ws # 0
                    /\ ws' = Len(sockets) + 1
                    /\ Len(sockets') = Len(sockets) + 1
                    /\ sockets'[ws'] = "CONNECTING"
                    /\ sockets'[ws] \notin {"CONNECTING", "OPEN"}
                    /\ \A i \in 1..Len(sockets) : i # ws => sockets'[i] = sockets[i]
                    /\ expectationsOnce' =
                           Append(expectationsOnce,
                                  Expectation(MatchVersion, ProcVersion(ws')))
                    /\ paused' = paused
                    /\ resumeStack' = resumeStack
                    /\ sent' = <<>>
              [] msg.event = "info" /\ msg.code = 20060 ->
                    /\ paused' = TRUE
                    /\ resumeStack' = resumeStack
                    /\ expectationsOnce' = expectationsOnce
                    /\ ws' = ws
                    /\ sockets' = sockets
                    /\ sent' = <<>>
              [] msg.event = "info" /\ msg.code = 20061 ->
                    /\ paused' = FALSE
                    /\ resumeStack' = <<>>
                    /\ expectationsOnce' = expectationsOnce
                    /\ ws' = ws
                    /\ sockets' = sockets
              [] OTHER ->
                    /\ paused' = paused
                    /\ resumeStack' = resumeStack
                    /\ expectationsOnce' = expectationsOnce
                    /\ ws' = ws
                    /\ sockets' = sockets
                    /\ sent' = <<>>
                    /\ transmitted' = transmitted

C10_ControlByInfoCodeOnly ==
    [][\A msg \in ControlMsgs : C10_Handled(msg) \/ ~OnMessage(msg)]_vars

\* the version check has just consumed an info message that also carries code
\* 20060, and the controller is not paused
C10_Witness ==
    /\ ret
    /\ Len(calls) = 1
    /\ calls[1].process.h = "version"
    /\ calls[1].msg.code = 20060
    /\ ~paused

---------------------------------------------------------------------------
(* Properties of the caller's operations, over SpecCtl.                    *)

\* the step is a subscribe call whose callback is not a function
SubscribeNotAFunction ==
    \E pair \in Pairs : \/ SubscribeTicker(pair, NotAFunction)
                        \/ SubscribeTrades(pair, NotAFunction)

(* C11: subscribe with a callback that is not a function rejects and has   *)
(* no other effect: no expectation registered, nothing transmitted,        *)
(* nothing deferred, paused flag, transports and ping counter unchanged.   *)
C11_InvalidCallbackRejected ==
    [][SubscribeNotAFunction =>
          /\ rejected'
          /\ expectationsOnce' = expectationsOnce
          /\ expectationsWhenever' = expectationsWhenever
          /\ sent' = <<>>
          /\ transmitted' = transmitted
          /\ handed' = handed
          /\ resumeStack' = resumeStack
          /\ paused' = paused
          /\ ws' = ws
          /\ sockets' = sockets
          /\ pingCounter' = pingCounter
      ]_vars

\* a subscribe was rejected while the controller is active on an open transport
\* and an earlier, valid subscribe is pending
C11_Witness ==
    /\ rejected
    /\ ~paused
    /\ ws # 0
    /\ sockets[ws] = "OPEN"
    /\ Len(expectationsOnce) = 2
    /\ expectationsOnce[2].process.h = "subscribed"
    /\ transmitted = {1}
    /\ ncall = 2

---------------------------------------------------------------------------
(* Properties of ping and of the paused flag, over Spec.                   *)

\* the once-entries that ping registered for correlation id cid
PingEntries(list, cid) ==
    {k \in 1..Len(list) : list[k].process.h = "pong" /\ list[k].process.cid = cid}

\* the payload of the ping with correlation id cid
PingData(cid) == [NoData EXCEPT !.cid = cid, !.event = "ping"]

(* C12: the n-th ping uses correlation id n: only ping advances the        *)
(* counter, by one, and the id is the advanced counter; the call registers *)
(* exactly one once-entry for that id and issues exactly one gated send of *)
(* {cid: n, event: 'ping'}; at most one entry per id is ever registered, a *)
(* pong with id n is consumed by that entry, which is then gone, and a     *)
(* pong for which no entry is left invokes no ping handler.                *)
C12_PingIds ==
    [][/\ Ping =>
            LET n == pingCounter + 1
                p == Payload(ncall', PingData(n))
            IN  /\ pingCounter' = n
                /\ expectationsOnce' =
                        Append(expectationsOnce,
                               Expectation(MatchPong(n), ProcPong(ncall', n)))
                /\ expectationsWhenever' = expectationsWhenever
                /\ IF DeferSend(Cur)
                   THEN resumeStack' = Append(resumeStack, p) /\ sent' = <<>>
                   ELSE /\ resumeStack' = resumeStack
                        /\ sent' = <<[ws |-> ws, id |-> p.id,
                                      data |-> JSONstringify(p.data)]>>
       /\ ~Ping => pingCounter' = pingCounter
       /\ \A cid \in 1..MaxCalls :
            /\ Cardinality(PingEntries(expectationsOnce, cid)) <= 1
            /\ cid > pingCounter => PingEntries(expectationsOnce, cid) = {}
            /\ OnMessage(Pong(cid)) =>
                    /\ PingEntries(expectationsOnce', cid) = {}
                    /\ IF PingEntries(expectationsOnce, cid) = {}
                       THEN calls' = <<>> /\ expectationsOnce' = expectationsOnce
                       ELSE \E k \in PingEntries(expectationsOnce, cid) :
                                /\ calls' = <<Invocation(expectationsOnce[k],
                                                         Pong(cid))>>
                                /\ expectationsOnce' = RemoveAt(expectationsOnce, k)
      ]_vars

\* the pong of the first ping has just been consumed, after a second ping was
\* made on a later transport; the second ping's entry is still registered
C12_Witness ==
    /\ Len(calls) = 1
    /\ calls[1].process.h = "pong"
    /\ calls[1].process.cid = 1
    /\ pingCounter = 2
    /\ PingEntries(expectationsOnce, 1) = {}
    /\ PingEntries(expectationsOnce, 2) # {}
    /\ Len(sockets) = 2

\* no transport's open event has been handled yet: every transport created so far
\* is still connecting or went away without having opened
NeverOpened == \A i \in 1..Len(sockets) : sockets[i] \in {"CONNECTING", "ABORTED"}

\* the step processes a pause directive: a 20060 that no expectation consumes
PauseRuns ==
    \E msg \in Msgs :
        /\ msg.event = "info" /\ msg.code = 20060 /\ ~Matched(msg)
        /\ OnMessage(msg)

(* C13: paused is true in every state in which no transport's open event   *)
(* has been handled, and nothing has been transmitted then; a processed    *)
(* pause directive sets it, a resume (an open event or a processed 20061)  *)
(* clears it, and no other step changes it.                                *)
C13_PausedUntilOpen ==
    /\ [](NeverOpened => (paused /\ transmitted = {} /\ sent = <<>>))
    /\ [][/\ PauseRuns => paused'
          /\ ResumeRuns => ~paused'
          /\ (~PauseRuns /\ ~ResumeRuns) => paused' = paused
         ]_vars

\* before any open event, with a ping and an unsubscribe deferred and the only
\* transport closed by the caller
C13_Witness ==
    /\ NeverOpened
    /\ paused
    /\ Len(resumeStack) = 2
    /\ ws # 0
    /\ sockets[ws] = "ABORTED"

---------------------------------------------------------------------------
(* Properties that tell transports apart, over Spec.                       *)

\* the step handles msg, delivered by the transport numbered i
DeliveredBy(i, msg) == i \in Delivering /\ OnMessage(msg)

\* the inbound messages that carry a version
VersionMsgs == {msg \in Msgs : msg.event = "info" /\ TruthyNum(msg.version)}

(* C14: every connect() registers exactly one version-check entry; when    *)
(* that entry consumes a message whose version is not allowed, the         *)
(* transport that delivered the message is closed and no transport is      *)
(* created; when the version is allowed, nothing changes but the removal   *)
(* of the entry.                                                           *)
C14_VersionCheck ==
    [][/\ Connect =>
            /\ expectationsOnce' =
                    Append(expectationsOnce,
                           Expectation(MatchVersion, ProcVersion(ws')))
            /\ expectationsWhenever' = expectationsWhenever
       /\ \A msg \in VersionMsgs : \A i \in 1..Len(sockets) :
            (DeliveredBy(i, msg) /\ Accepts(expectationsOnce, msg)) =>
                /\ expectationsOnce' =
                        RemoveAt(expectationsOnce, findIndex(expectationsOnce, msg))
                /\ expectationsWhenever' = expectationsWhenever
                /\ ws' = ws
                /\ Len(sockets') = Len(sockets)
                /\ paused' = paused
                /\ resumeStack' = resumeStack
                /\ sent' = <<>>
                /\ IF msg.version \in allowedVersions
                   THEN sockets' = sockets
                   ELSE sockets'[i] \notin {"CONNECTING", "OPEN"}
      ]_vars

---------------------------------------------------------------------------
(* Properties of restart and close.                                        *)

\* the step runs restart(): the caller's call, or a 20051 no expectation consumes
RestartCalled ==
    \/ Restart
    \/ ~Matched(InfoCode(20051)) /\ OnMessage(InfoCode(20051))

(* C15: from a state with a transport, restart() ends in the state that    *)
(* close() followed by connect() ends in, with the same effects in the     *)
(* same order: the old transport is closed, one version-check entry is     *)
(* registered, a new connecting transport becomes the current one; paused  *)
(* flag, deferred queue and ping counter are unchanged.                    *)
C15_RestartIsCloseThenConnect ==
    [][(RestartCalled /\ ws # 0) =>
          LET afterClose == close(Begin)
              afterConnect == connect(afterClose)
          IN  /\ sockets' = afterConnect.sockets
              /\ ws' = afterConnect.ws
              /\ expectationsOnce' = afterConnect.expectationsOnce
              /\ expectationsWhenever' = afterConnect.expectationsWhenever
              /\ paused' = afterConnect.paused
              /\ resumeStack' = afterConnect.resumeStack
              /\ pingCounter' = afterConnect.pingCounter
              /\ sent' = afterConnect.sent
              /\ afterClose.sockets[ws] \notin {"CONNECTING", "OPEN"}
              /\ sockets'[ws] = afterClose.sockets[ws]
              /\ \A j \in 1..Len(sockets) : j # ws => sockets'[j] = sockets[j]
              /\ Len(sockets') = Len(sockets) + 1
              /\ ws' = Len(sockets')
              /\ sockets'[ws'] = "CONNECTING"
              /\ expectationsOnce' =
                      Append(expectationsOnce,
                             Expectation(MatchVersion, ProcVersion(ws')))
              /\ expectationsWhenever' = expectationsWhenever
              /\ paused' = paused
              /\ resumeStack' = resumeStack
              /\ pingCounter' = pingCounter
              /\ sent' = <<>>
      ]_vars

\* after a restart made while paused by a directive with a subscribe deferred:
\* the old transport is closing, the new one connecting, the queue kept
C15_Witness ==
    /\ sockets = <<"CLOSING", "CONNECTING">>
    /\ ws = 2
    /\ paused
    /\ Len(resumeStack) = 1
    /\ Len(expectationsOnce) = 3
    /\ expectationsOnce[3] = Expectation(MatchVersion, ProcVersion(2))

\* close() has been requested of the current transport, or it went away
CurrentShut == ws # 0 /\ sockets[ws] \in {"CLOSING", "CLOSED", "ABORTED"}

(* C16: close() only shuts the current transport: paused flag, deferred    *)
(* queue, both lists and ping counter are unchanged and no other transport *)
(* is touched; a send issued while the current transport is shut is        *)
(* appended to the tail of the deferred queue and not transmitted.         *)
C16_CloseFrame ==
    [][/\ Close =>
            /\ sockets'[ws] \notin {"CONNECTING", "OPEN"}
            /\ \A j \in 1..Len(sockets) : j # ws => sockets'[j] = sockets[j]
            /\ Len(sockets') = Len(sockets)
            /\ ws' = ws
            /\ paused' = paused
            /\ resumeStack' = resumeStack
            /\ expectationsOnce' = expectationsOnce
            /\ expectationsWhenever' = expectationsWhenever
            /\ pingCounter' = pingCounter
            /\ sent' = <<>>
       /\ (CurrentShut /\ CallerSends) =>
            /\ sent' = <<>>
            /\ transmitted' = transmitted
            /\ Len(resumeStack') = Len(resumeStack) + 1
            /\ SubSeq(resumeStack', 1, Len(resumeStack)) = resumeStack
            /\ resumeStack'[Len(resumeStack')].id = ncall'
      ]_vars

\* active (not paused), the open transport closed by the caller, and two sends
\* made since: both deferred in call order, nothing transmitted
C16_Witness ==
    /\ ~paused
    /\ ws # 0
    /\ sockets[ws] = "CLOSING"
    /\ Ids(resumeStack) = <<1, 2>>
    /\ transmitted = {}

---------------------------------------------------------------------------
(* Properties of the deferred queue, over SpecStack.                       *)

(* C17: firing the queue (directly, or by the open event's resume)         *)
(* executes each action that was queued when firing began once, in enqueue *)
(* order, and leaves the queue empty, also when the fired actions push     *)
(* themselves on the queue again; reject() empties the queue and executes  *)
(* and transmits nothing.                                                  *)
C17_FireDrainsOnce ==
    [][/\ (StackFire \/ \E i \in 1..Len(sockets) : OnOpen(i)) =>
            /\ fired' = Ids(resumeStack)
            /\ resumeStack' = <<>>
            /\ \A k \in 1..Len(sent') : sent'[k].id \in IdSet(resumeStack)
       /\ StackReject =>
            /\ fired' = <<>>
            /\ sent' = <<>>
            /\ transmitted' = transmitted
            /\ resumeStack' = <<>>
      ]_vars

\* the queue was fired with the gate shut: the three actions ran in order, each
\* deferred itself again, nothing was transmitted and the queue is empty
C17_Witness ==
    /\ fired = <<1, 2, 3>>
    /\ sent = <<>>
    /\ transmitted = {}
    /\ resumeStack = <<>>
    /\ paused
    /\ ws # 0
    /\ sockets[ws] = "OPEN"

---------------------------------------------------------------------------
(* Properties of handlers that register expectations, over SpecReg.        *)

\* the whenever-entries the handler of once-entry exp registers when it runs on msg
Registers(exp, msg) ==
    IF exp.process.h = "subscribed"
    THEN <<Expectation(MatchSnapshot(msg.chanId),
                       ProcSnapshot(exp.process.req, exp.process.cb)),
           Expectation(MatchHeartbeat(msg.chanId),
                       ProcHeartbeating(exp.process.req))>>
    ELSE <<>>

(* C18: when a once-entry consumes a message, the entry is gone from the   *)
(* once-list after the dispatch, the entries its handler registered are in *)
(* the lists after the dispatch, behind those already there, and the       *)
(* dispatch invoked the consumed entry's handler once and nothing else,    *)
(* also when a newly registered predicate accepts the message.             *)
C18_RemovedBeforeHandler ==
    [][(op'.name = "exec" /\ Accepts(expectationsOnce, op'.msg)) =>
          LET msg == op'.msg
              k == findIndex(expectationsOnce, msg)
              exp == expectationsOnce[k]
          IN  /\ expectationsOnce' = RemoveAt(expectationsOnce, k)
              /\ exp \notin Range(expectationsOnce')
              /\ expectationsWhenever' = expectationsWhenever \o Registers(exp, msg)
              /\ calls' = <<Invocation(exp, msg)>>
              /\ ret'
      ]_vars

\* an acknowledgment handler has just run and registered a whenever-entry whose
\* predicate accepts the very message that was dispatched
C18_Witness ==
    /\ op.name = "exec"
    /\ Len(calls) = 1
    /\ calls[1].process.h = "subscribed"
    /\ \E w \in Range(expectationsWhenever) :
            /\ w.process.req = calls[1].process.req
            /\ Apply(w.match, op.msg)

---------------------------------------------------------------------------
(* Correlation of acknowledgments, over SpecSub.                           *)

(* C19: whatever requests are pending and in whatever order their          *)
(* acknowledgments arrive, the acknowledgment handler that a 'subscribed'  *)
(* message invokes is that of a request for the message's channel and      *)
(* pair, and it is that request's callback that is bound to the channel    *)
(* id.                                                                     *)
C19_AckCorrelation ==
    \A k \in 1..Len(calls) :
        calls[k].process.h = "subscribed" =>
            /\ calls[k].process.channel = calls[k].msg.channel
            /\ calls[k].process.pair = calls[k].msg.pair
            /\ bound[calls[k].msg.chanId] =
                    [req |-> calls[k].process.req, cb |-> calls[k].process.cb]

---------------------------------------------------------------------------
(* Events of a superseded transport, over Spec.                            *)

\* the transport numbered i is no longer the current one
Superseded(i) == i \in 1..Len(sockets) /\ i # ws

\* the step leaves the controller as it was and transmits nothing
ControllerUntouched ==
    /\ paused' = paused
    /\ resumeStack' = resumeStack
    /\ expectationsOnce' = expectationsOnce
    /\ expectationsWhenever' = expectationsWhenever
    /\ pingCounter' = pingCounter
    /\ ws' = ws
    /\ Len(sockets') = Len(sockets)
    /\ sockets'[ws] = sockets[ws]
    /\ sent' = <<>>
    /\ calls' = <<>>

(* C20: the open event and the inbound messages of a transport that has    *)
(* been superseded do not change the controller: paused flag, deferred     *)
(* queue, both lists and the current transport stay as they are and        *)
(* nothing is transmitted.                                                 *)
C20_SupersededEventsIgnored ==
    [][\A i \in 1..Len(sockets) : Superseded(i) =>
          /\ OnOpen(i) => ControllerUntouched
          /\ \A msg \in ControlMsgs : DeliveredBy(i, msg) => ControllerUntouched
      ]_vars

=============================================================================
